---- MODULE Spec2Model ----
(***************************************************************************)
(* Model of compute.go of the hpcloud client: Server.MarshalJSON, the      *)
(* hand-written encoder of the "create server" request, and                *)
(* Access.CreateServer, which hands the encoder's output to the transport. *)
(*                                                                         *)
(* Go strings and []byte are sequences of byte values.  The encoder's      *)
(* buffer is the sequence of JSON tokens that its WriteString calls        *)
(* append (punctuation, keys, string / integer / boolean literals);        *)
(* whitespace inside the literals of the source is not a token.  The input *)
(* strings of the model contain no quote or backslash, so a %s string is   *)
(* one string token.                                                       *)
(***************************************************************************)
EXTENDS Integers, Sequences, FiniteSets, TLC

VARIABLES
    s,          \* the Server value the caller holds
    runs,       \* what each call of s.MarshalJSON() made so far has returned
    pc,         \* where the call of CreateServer(s) stands
    body,       \* CreateServer: b and err of its call of MarshalJSON
    calls,      \* the calls of baseComputeRequest made so far
    response,   \* CreateServer: body and err of its request
    decodes,    \* the number of calls of json.Unmarshal made so far
    ret         \* what CreateServer has returned

vars == <<s, runs, pc, body, calls, response, decodes, ret>>

-----------------------------------------------------------------------------
(* Bounds of the model *)

\* number of distinct metadata keys a request may carry
MaxMeta == 2
\* longest SecurityGroups slice
MaxGroups == 2

(* Constants of the program *)

\* XSmall, the smallest flavor, and the lower limit of the range check
XSmall == 100
\* DblXLarge, the largest flavor, and the upper limit of the range check
DblXLarge == 105
\* the largest personality MarshalJSON accepts, in bytes
MaxPersonalityLen == 255
\* UbuntuLucid10_04
UbuntuLucid10_04 == 1236

-----------------------------------------------------------------------------
(* Byte strings *)

Bytes_vm == <<118, 109>>
Bytes_key == <<107, 101, 121>>
Bytes_hello == <<104, 101, 108, 108, 111>>
Bytes_default == <<100, 101, 102, 97, 117, 108, 116>>
Bytes_web == <<119, 101, 98>>
Bytes_role == <<114, 111, 108, 101>>
Bytes_env == <<101, 110, 118>>
Bytes_tier == <<116, 105, 101, 114>>
Bytes_zone == <<122, 111, 110, 101>>
Bytes_prod == <<112, 114, 111, 100>>
Bytes_gold == <<103, 111, 108, 100>>
Bytes_east == <<101, 97, 115, 116>>

\* a string of n bytes 'a'
Filler(n) == [i \in 1..n |-> 97]

-----------------------------------------------------------------------------
(* The errors of MarshalJSON (errors.New messages) and the nil error *)

NoError == "nil"
InvalidFlavor == "Flavor Reference refers to a non-existant flavour."
MissingImage == "An image name is required."
MissingName == "A name is required"
PersonalityTooLarge == "Server's personality cannot have >255 bytes."

-----------------------------------------------------------------------------
(* Tokens written to the buffer *)

Tok(t, k, v) == [t |-> t, k |-> k, v |-> v]
LBrace == Tok("{", "", <<>>)
RBrace == Tok("}", "", <<>>)
LBracket == Tok("[", "", <<>>)
RBracket == Tok("]", "", <<>>)
Comma == Tok(",", "", <<>>)
Colon == Tok(":", "", <<>>)
TrueLit == Tok("true", "", <<>>)
\* a key spelled out in the source, "flavorRef":
Key(name) == Tok("key", name, <<>>)
\* a key formatted with %s from the request's bytes
DataKey(bytes) == Tok("key", "", bytes)
\* "%s"
StrLit(bytes) == Tok("str", "", bytes)
\* %d
IntLit(n) == Tok("int", "", <<n>>)

-----------------------------------------------------------------------------
(* encoding/base64, StdEncoding *)

\* the character of the standard alphabet for a 6-bit value
StdChar(v) ==
    IF v < 26 THEN 65 + v
    ELSE IF v < 52 THEN 97 + (v - 26)
    ELSE IF v < 62 THEN 48 + (v - 52)
    ELSE IF v = 62 THEN 43
    ELSE 47

\* '='
StdPadding == 61

RECURSIVE StdEncodeToString(_)
\* the standard padded base64 encoding of src
StdEncodeToString(src) ==
    IF Len(src) = 0 THEN <<>>
    ELSE IF Len(src) = 1 THEN
        <<StdChar(src[1] \div 4), StdChar((src[1] % 4) * 16),
          StdPadding, StdPadding>>
    ELSE IF Len(src) = 2 THEN
        <<StdChar(src[1] \div 4),
          StdChar((src[1] % 4) * 16 + src[2] \div 16),
          StdChar((src[2] % 16) * 4), StdPadding>>
    ELSE
        <<StdChar(src[1] \div 4),
          StdChar((src[1] % 4) * 16 + src[2] \div 16),
          StdChar((src[2] % 16) * 4 + src[3] \div 64),
          StdChar(src[3] % 64)>>
        \o StdEncodeToString(SubSeq(src, 4, Len(src)))

\* base64.StdEncoding.Encode(dst, src): the contents of dst after the call.
\* It writes EncodedLen(len(src)) bytes to the front of dst and nothing when
\* src is empty.  The encoder only ever calls it with an empty src.
StdEncode(dst, src) ==
    IF Len(src) = 0 THEN dst
    ELSE LET enc == StdEncodeToString(src)
         IN  [i \in 1..Len(dst) |-> IF i <= Len(enc) THEN enc[i] ELSE dst[i]]

-----------------------------------------------------------------------------
(* Server.MarshalJSON.  A state of the encoder is the buffer b, the error    *)
(* it has returned (NoError while it is still running) and the lines it has  *)
(* printed.  Each step below is one statement of the function; a step after  *)
(* a return does nothing.                                                    *)

\* Fail, returning what the buffer holds instead of no bytes
Fail_WithBuffer(r, msg) == [b |-> r.b, err |-> msg, printed |-> r.printed]

\* return []byte{}, errors.New(msg)
Fail(r, msg) == [b |-> <<>>, err |-> msg, printed |-> r.printed]

\* b.WriteString(...)
Write(r, toks) == [r EXCEPT !.b = r.b \o toks]

\* b := bytes.NewBufferString(""); b.WriteString(`{"server":{`)
Begin ==
    [b |-> <<LBrace, Key("server"), Colon, LBrace>>, err |-> NoError,
     printed |-> <<>>]

WriteFlavor(r, srv) ==
    IF r.err # NoError THEN r
    ELSE IF srv.FlavorRef < XSmall \/ srv.FlavorRef > DblXLarge
         THEN Fail(r, InvalidFlavor)
         ELSE Write(r, <<Key("flavorRef"), Colon, IntLit(srv.FlavorRef)>>)

\* WriteImage, rejecting only a negative image
WriteImage_NegativeOnly(r, srv) ==
    IF r.err # NoError THEN r
    ELSE IF srv.ImageRef < 0
         THEN [b |-> <<>>, err |-> MissingImage, printed |-> r.printed]
         ELSE [r EXCEPT !.b = @ \o <<Comma, Key("imageRef"), Colon,
                                     IntLit(srv.ImageRef)>>]

WriteImage(r, srv) ==
    IF r.err # NoError THEN r
    ELSE IF srv.ImageRef = 0
         THEN Fail(r, MissingImage)
         ELSE Write(r, <<Comma, Key("imageRef"), Colon, IntLit(srv.ImageRef)>>)

WriteName(r, srv) ==
    IF r.err # NoError THEN r
    ELSE IF srv.Name = <<>>
         THEN Fail(r, MissingName)
         ELSE Write(r, <<Comma, Key("name"), Colon, StrLit(srv.Name)>>)

\* WritePersonality, with the limit off by one
WritePersonality_OffByOne(r, srv) ==
    IF r.err # NoError THEN r
    ELSE IF Len(srv.Personality) >= MaxPersonalityLen
         THEN Fail(r, PersonalityTooLarge)
         ELSE IF srv.Personality # <<>>
              THEN Write(r, <<Comma, Key("personality"), Colon,
                              StrLit(srv.Personality), Comma>>)
              ELSE r

\* `,"personality":"%s",` : the format ends with a comma
WritePersonality(r, srv) ==
    IF r.err # NoError THEN r
    ELSE IF Len(srv.Personality) > MaxPersonalityLen
         THEN Fail(r, PersonalityTooLarge)
         ELSE IF srv.Personality # <<>>
              THEN Write(r, <<Comma, Key("personality"), Colon,
                              StrLit(srv.Personality), Comma>>)
              ELSE r

WriteKey(r, srv) ==
    IF r.err # NoError THEN r
    ELSE IF srv.Key # <<>>
         THEN Write(r, <<Comma, Key("key_name"), Colon, StrLit(srv.Key)>>)
         ELSE r

WriteConfigDrive(r, srv) ==
    IF r.err # NoError THEN r
    ELSE IF srv.ConfigDrive
         THEN Write(r, <<Comma, Key("config_drive"), Colon, TrueLit>>)
         ELSE r

\* WriteMinCount, emitting a zero count
WriteMinCount_WithZero(r, srv) ==
    IF r.err # NoError THEN r
    ELSE IF srv.MinCount >= 0
         THEN Write(r, <<Comma, Key("min_count"), Colon, IntLit(srv.MinCount)>>)
         ELSE r

WriteMinCount(r, srv) ==
    IF r.err # NoError THEN r
    ELSE IF srv.MinCount > 0
         THEN Write(r, <<Comma, Key("min_count"), Colon, IntLit(srv.MinCount)>>)
         ELSE r

WriteMaxCount(r, srv) ==
    IF r.err # NoError THEN r
    ELSE IF srv.MaxCount > 0
         THEN Write(r, <<Comma, Key("max_count"), Colon, IntLit(srv.MaxCount)>>)
         ELSE r

\* newb := make([]byte, 0, len(s.UserData))
\* base64.StdEncoding.Encode([]byte(s.UserData), newb)
\* The destination is a copy of UserData and the source is the empty newb,
\* so newb is still empty when it is formatted; the format ends with a comma.
WriteUserData(r, srv) ==
    IF r.err # NoError THEN r
    ELSE IF srv.UserData # <<>>
         THEN LET newb == <<>>
                  dst == StdEncode(srv.UserData, newb)
              IN  Write(r, <<Comma, Key("user_data"), Colon, StrLit(newb),
                             Comma>>)
         ELSE r

\* The orders in which `range` may visit the keys of a map: Go leaves the
\* order unspecified, so each run picks one of them.
Orders(m) ==
    {o \in [1..Cardinality(DOMAIN m) -> DOMAIN m] :
        \A i, j \in DOMAIN o : o[i] = o[j] => i = j}

RECURSIVE MetadataLoop_CountFromOne(_, _, _, _, _)
\* MetadataLoop, comparing cnt instead of cnt + 1 with the length
MetadataLoop_CountFromOne(r, m, order, i, cnt) ==
    IF i > Len(order) THEN r
    ELSE LET r1 == Write(r, <<DataKey(order[i]), Colon, StrLit(m[order[i]])>>)
         IN  IF cnt # Cardinality(DOMAIN m)
             THEN MetadataLoop_CountFromOne(Write(r1, <<Comma>>), m, order,
                                            i + 1, cnt + 1)
             ELSE MetadataLoop_CountFromOne(Write(r1, <<RBrace>>), m, order,
                                            i + 1, cnt)

RECURSIVE MetadataLoop(_, _, _, _, _)
\* for key, value := range s.Metadata { ... }, visiting the keys in `order`
\* from position i on, with the loop's counter at cnt
MetadataLoop(r, m, order, i, cnt) ==
    IF i > Len(order) THEN r
    ELSE LET r1 == Write(r, <<DataKey(order[i]), Colon, StrLit(m[order[i]])>>)
         IN  IF cnt + 1 # Cardinality(DOMAIN m)
             THEN MetadataLoop(Write(r1, <<Comma>>), m, order, i + 1, cnt + 1)
             ELSE MetadataLoop(Write(r1, <<RBrace>>), m, order, i + 1, cnt)

\* WriteMetadata, leaving out the entry the iteration visits first
WriteMetadata_SkipFirst(r, srv, order) ==
    IF r.err # NoError THEN r
    ELSE IF Cardinality(DOMAIN srv.Metadata) > 0
         THEN LET r0 == [r EXCEPT !.printed =
                             Append(@, Cardinality(DOMAIN srv.Metadata))]
                  r1 == Write(r0, <<Comma, Key("metadata"), Colon, LBrace>>)
              IN  MetadataLoop(r1, srv.Metadata, order, 2, 1)
         ELSE r

\* if len(s.Metadata) > 0 { fmt.Println(len(s.Metadata)); ... }
WriteMetadata(r, srv, order) ==
    IF r.err # NoError THEN r
    ELSE IF Cardinality(DOMAIN srv.Metadata) > 0
         THEN LET r0 == [r EXCEPT !.printed =
                             Append(@, Cardinality(DOMAIN srv.Metadata))]
                  r1 == Write(r0, <<Comma, Key("metadata"), Colon, LBrace>>)
              IN  MetadataLoop(r1, srv.Metadata, order, 1, 0)
         ELSE r

RECURSIVE SecurityGroupsLoop_NoIncrement(_, _, _, _)
\* SecurityGroupsLoop, without the cnt++
SecurityGroupsLoop_NoIncrement(r, groups, i, cnt) ==
    IF i > Len(groups) THEN r
    ELSE LET r1 == Write(r, <<LBrace, Key("name"), Colon,
                              StrLit(groups[i].Name), RBrace>>)
         IN  IF cnt + 1 # Len(groups)
             THEN SecurityGroupsLoop_NoIncrement(Write(r1, <<Comma>>), groups,
                                                 i + 1, cnt)
             ELSE SecurityGroupsLoop_NoIncrement(Write(r1, <<RBracket>>), groups,
                                                 i + 1, cnt)

RECURSIVE SecurityGroupsLoop(_, _, _, _)
\* for _, sg := range s.SecurityGroups { ... } from index i on, with the
\* loop's counter at cnt
SecurityGroupsLoop(r, groups, i, cnt) ==
    IF i > Len(groups) THEN r
    ELSE LET r1 == Write(r, <<LBrace, Key("name"), Colon,
                              StrLit(groups[i].Name), RBrace>>)
         IN  IF cnt + 1 # Len(groups)
             THEN SecurityGroupsLoop(Write(r1, <<Comma>>), groups, i + 1, cnt + 1)
             ELSE SecurityGroupsLoop(Write(r1, <<RBracket>>), groups, i + 1, cnt)

\* if len(s.SecurityGroups) > 0 { ... }
WriteSecurityGroups(r, srv) ==
    IF r.err # NoError THEN r
    ELSE IF Len(srv.SecurityGroups) > 0
         THEN SecurityGroupsLoop(
                  Write(r, <<Comma, Key("security_groups"), Colon, LBracket>>),
                  srv.SecurityGroups, 1, 0)
         ELSE r

\* b.WriteString("}}"); return b.Bytes(), nil
End(r) ==
    IF r.err # NoError THEN r
    ELSE Write(r, <<RBrace, RBrace>>)

\* Server.MarshalJSON on the request srv, in a run whose range over the
\* metadata follows `order`
MarshalJSON(srv, order) ==
    LET r1 == WriteFlavor(Begin, srv)
        r2 == WriteImage(r1, srv)
        r3 == WriteName(r2, srv)
        r4 == WritePersonality(r3, srv)
        r5 == WriteKey(r4, srv)
        r6 == WriteConfigDrive(r5, srv)
        r7 == WriteMinCount(r6, srv)
        r8 == WriteMaxCount(r7, srv)
        r9 == WriteUserData(r8, srv)
        r10 == WriteMetadata(r9, srv, order)
        r11 == WriteSecurityGroups(r10, srv)
    IN  End(r11)

-----------------------------------------------------------------------------
(* The requests of the model *)

\* the keys a metadata map may have, and the value stored under each
MetaPool == <<Bytes_role, Bytes_env, Bytes_tier, Bytes_zone>>
MetaValues == <<Bytes_web, Bytes_prod, Bytes_gold, Bytes_east>>
MetaKeys == {MetaPool[i] : i \in 1..MaxMeta}
MetaValueOf(k) == MetaValues[CHOOSE i \in 1..Len(MetaPool) : MetaPool[i] = k]
Metadatas == {[k \in K |-> MetaValueOf(k)] : K \in SUBSET MetaKeys}

\* IDLink values (Name, ID; the Links play no part in the encoder)
IDLink_default == [Name |-> Bytes_default, ID |-> <<49>>]
IDLink_web == [Name |-> Bytes_web, ID |-> <<50>>]

\* the slices of up to MaxGroups groups in which neighbours differ
SecurityGroupLists ==
    UNION {{[i \in 1..n |-> IF i % 2 = 1 THEN IDLink_default ELSE IDLink_web],
            [i \in 1..n |-> IF i % 2 = 1 THEN IDLink_web ELSE IDLink_default]} :
           n \in 0..MaxGroups}

\* requests whose flavor, image and name pass the checks, with every
\* combination of present and absent optional fields
AcceptableServers ==
    [ConfigDrive : BOOLEAN,
     FlavorRef : {XSmall},
     ImageRef : {UbuntuLucid10_04},
     MaxCount : {0, 2},
     MinCount : {-1, 0, 1},
     Name : {Bytes_vm},
     Key : {<<>>, Bytes_key},
     Personality : {Filler(0), Filler(MaxPersonalityLen)},
     UserData : {<<>>, Bytes_hello},
     SecurityGroups : SecurityGroupLists,
     Metadata : Metadatas]

\* requests with any mix of good and bad flavor, image, name and personality
OtherServers ==
    [ConfigDrive : {FALSE},
     FlavorRef : {XSmall - 1, XSmall, DblXLarge, DblXLarge + 1},
     ImageRef : {0, UbuntuLucid10_04},
     MaxCount : {0},
     MinCount : {0},
     Name : {<<>>, Bytes_vm},
     Key : {<<>>},
     Personality : {Filler(n) : n \in {0, 1, MaxPersonalityLen,
                                       MaxPersonalityLen + 1}},
     UserData : {<<>>, Bytes_hello},
     SecurityGroups : {<<>>},
     Metadata : Metadatas]

Servers == AcceptableServers \cup OtherServers

-----------------------------------------------------------------------------
(* State machines *)

\* A caller holds a Server value and nothing has been called yet.
Init ==
    /\ s \in Servers
    /\ runs = <<>>
    /\ pc = "idle"
    /\ body = [b |-> <<>>, err |-> NoError]
    /\ calls = <<>>
    /\ response = [body |-> "", err |-> NoError]
    /\ decodes = 0
    /\ ret = [sr |-> "nil", err |-> NoError]

\* s.MarshalJSON(), in a run that visits the metadata in some order
Call ==
    /\ \E order \in Orders(s.Metadata) :
           runs' = Append(runs, MarshalJSON(s, order))
    /\ UNCHANGED <<s, pc, body, calls, response, decodes, ret>>

\* The caller encodes the request.
Marshal == runs = <<>> /\ Call

\* The caller encodes the same request a second time.
MarshalAgain == Len(runs) = 1 /\ Call

Next == Marshal

Spec == Init /\ [][Next]_vars

NextTwice == Marshal \/ MarshalAgain

SpecTwice == Init /\ [][NextTwice]_vars

(* Access.CreateServer(s), one call, in three steps: the encoding, the      *)
(* request through baseComputeRequest, the decoding of the answer.          *)

\* what the transport may answer: an error, or a body that json.Unmarshal
\* accepts or rejects
TransportError == "transport error"
UnmarshalError == "unmarshal error"
ResponseBodies == {"server json", "not json"}

\* CreateServerMarshal, without the return on an error
CreateServerMarshal_IgnoringError ==
    /\ pc = "idle"
    /\ \E order \in Orders(s.Metadata) :
         LET r == MarshalJSON(s, order)
         IN  body' = [b |-> r.b, err |-> r.err]
    /\ pc' = "marshalled"
    /\ UNCHANGED <<s, runs, calls, response, decodes, ret>>

\* b, err := s.MarshalJSON(); if err != nil { return nil, err }
CreateServerMarshal ==
    /\ pc = "idle"
    /\ \E order \in Orders(s.Metadata) :
         LET r == MarshalJSON(s, order)
         IN  /\ body' = [b |-> r.b, err |-> r.err]
             /\ IF r.err # NoError
                THEN /\ ret' = [sr |-> "nil", err |-> r.err]
                     /\ pc' = "returned"
                ELSE /\ ret' = ret
                     /\ pc' = "marshalled"
    /\ UNCHANGED <<s, runs, calls, response, decodes>>

\* body, err := a.baseComputeRequest("servers", "POST",
\*     strings.NewReader(string(b))); if err != nil { return nil, err }
CreateServerRequest ==
    /\ pc = "marshalled"
    /\ calls' = Append(calls, [url |-> "servers", method |-> "POST",
                               body |-> body.b])
    /\ \/ /\ response' = [body |-> "", err |-> TransportError]
          /\ ret' = [sr |-> "nil", err |-> TransportError]
          /\ pc' = "returned"
       \/ /\ \E answer \in ResponseBodies :
                response' = [body |-> answer, err |-> NoError]
          /\ ret' = ret
          /\ pc' = "requested"
    /\ UNCHANGED <<s, runs, body, decodes>>

\* sr := &ServerResponse{}; err = json.Unmarshal(body, sr)
\* if err != nil { return nil, err }; return sr, nil
CreateServerDecode ==
    /\ pc = "requested"
    /\ decodes' = decodes + 1
    /\ IF response.body = "server json"
       THEN ret' = [sr |-> "ServerResponse", err |-> NoError]
       ELSE ret' = [sr |-> "nil", err |-> UnmarshalError]
    /\ pc' = "returned"
    /\ UNCHANGED <<s, runs, body, calls, response>>

NextCreate == CreateServerMarshal \/ CreateServerRequest \/ CreateServerDecode

SpecCreate == Init /\ [][NextCreate]_vars

-----------------------------------------------------------------------------
(* Reading a payload *)

Openers == {"{", "["}
Closers == {"}", "]"}

\* the depth after token tok, read at depth `depth`
DepthAfter(tok, depth) ==
    IF tok.t \in Openers THEN depth + 1
    ELSE IF tok.t \in Closers THEN depth - 1
    ELSE depth

RECURSIVE FieldPositionsFrom(_, _, _)
FieldPositionsFrom(b, i, depth) ==
    IF i > Len(b) THEN {}
    ELSE (IF b[i].t = "key" /\ depth = 2 THEN {i} ELSE {})
         \cup FieldPositionsFrom(b, i + 1, DepthAfter(b[i], depth))

\* the positions of the keys of the server object: the keys read with two
\* objects open
FieldPositions(b) == FieldPositionsFrom(b, 1, 0)

RECURSIVE FieldKeysFrom(_, _, _)
FieldKeysFrom(b, i, depth) ==
    IF i > Len(b) THEN <<>>
    ELSE (IF b[i].t = "key" /\ depth = 2 THEN <<b[i].k>> ELSE <<>>)
         \o FieldKeysFrom(b, i + 1, DepthAfter(b[i], depth))

\* the keys of the server object, in the order of the payload
FieldKeys(b) == FieldKeysFrom(b, 1, 0)

HasField(b, name) == \E i \in FieldPositions(b) : b[i].k = name

\* the position of the (first) field called name
FieldAt(b, name) ==
    LET named == {i \in FieldPositions(b) : b[i].k = name}
    IN  CHOOSE i \in named : \A j \in named : i <= j

RECURSIVE Balanced(_, _, _)
\* every closing brace or bracket of b from i on closes the innermost open
\* one (stack), and nothing is left open at the end
Balanced(b, i, stack) ==
    IF i > Len(b) THEN stack = <<>>
    ELSE IF b[i].t \in Openers
         THEN Balanced(b, i + 1, <<b[i].t>> \o stack)
    ELSE IF b[i].t \in Closers
         THEN /\ stack # <<>>
              /\ stack[1] = (IF b[i].t = "}" THEN "{" ELSE "[")
              /\ Balanced(b, i + 1, Tail(stack))
    ELSE Balanced(b, i + 1, stack)

\* every comma stands between two fields or elements
SeparatorsBetween(b) ==
    \A i \in 1..Len(b) :
        b[i].t = "," =>
            /\ 1 < i /\ i < Len(b)
            /\ b[i - 1].t \notin Openers \cup {","}
            /\ b[i + 1].t \notin Closers \cup {","}

WellFormed(b) == SeparatorsBetween(b) /\ Balanced(b, 1, <<>>)

\* the rules of the validation, as the request satisfies them
FlavorOK(srv) == srv.FlavorRef \in 100..105
ImageOK(srv) == srv.ImageRef # 0
NameOK(srv) == srv.Name # <<>>
PersonalityOK(srv) == Len(srv.Personality) <= 255
Valid(srv) == FlavorOK(srv) /\ ImageOK(srv) /\ NameOK(srv) /\ PersonalityOK(srv)

\* the calls of MarshalJSON made so far
Run(i) == runs[i]
Ran == DOMAIN runs

-----------------------------------------------------------------------------
(* The claims *)

\* C1: every payload that MarshalJSON returns for a request that passes the
\* validation is well-formed: each comma stands between two present fields
\* (never right after an opening brace or bracket, never right before a
\* closing one, never next to another comma) and braces and brackets are
\* balanced.
C1_WellFormedPayload ==
    \A i \in Ran : Valid(s) => Run(i).err = NoError /\ WellFormed(Run(i).b)

\* the error of the first violated rule, in the order flavor, image, name,
\* personality
FirstViolation(srv) ==
    IF ~FlavorOK(srv) THEN InvalidFlavor
    ELSE IF ~ImageOK(srv) THEN MissingImage
    ELSE IF ~NameOK(srv) THEN MissingName
    ELSE IF ~PersonalityOK(srv) THEN PersonalityTooLarge
    ELSE NoError

\* C2: the validation is fail-fast with the precedence flavor, image, name,
\* personality: the result is the error of the first violated rule, the call
\* succeeds exactly when no rule is violated, and a failing call returns no
\* bytes.
C2_FailFastPrecedence ==
    \A i \in Ran :
        /\ Run(i).err = FirstViolation(s)
        /\ (Run(i).err = NoError) <=> Valid(s)
        /\ Run(i).err # NoError => Run(i).b = <<>>

\* C2 witness: a call on a request that violates two rules (no name, and a
\* personality over the limit) has returned the error of the first.
C2_Witness ==
    /\ Len(runs) >= 1
    /\ FlavorOK(s) /\ ImageOK(s) /\ ~NameOK(s) /\ ~PersonalityOK(s)
    /\ Run(1).err = MissingName

Optional(cond, name) == IF cond THEN <<name>> ELSE <<>>

\* the keys the server object is to have for the request srv
ExpectedKeys(srv) ==
    <<"flavorRef", "imageRef", "name">>
    \o Optional(srv.Personality # <<>>, "personality")
    \o Optional(srv.Key # <<>>, "key_name")
    \o Optional(srv.ConfigDrive, "config_drive")
    \o Optional(srv.MinCount > 0, "min_count")
    \o Optional(srv.MaxCount > 0, "max_count")
    \o Optional(srv.UserData # <<>>, "user_data")
    \o Optional(Cardinality(DOMAIN srv.Metadata) >= 1, "metadata")
    \o Optional(Len(srv.SecurityGroups) >= 1, "security_groups")

\* C3: for a valid request the keys of the emitted server object are
\* flavorRef, imageRef, name, followed by exactly the optional fields whose
\* emit condition holds, in the order personality, key_name, config_drive,
\* min_count, max_count, user_data, metadata, security_groups, each once.
C3_FieldKeys ==
    \A i \in Ran : Valid(s) => FieldKeys(Run(i).b) = ExpectedKeys(s)

\* C3 witness: a payload for a request with a negative min_count, no
\* config_drive, an empty metadata map, and a key and a max_count to emit.
C3_Witness ==
    /\ Len(runs) >= 1 /\ Valid(s) /\ Run(1).err = NoError
    /\ s.MinCount < 0 /\ ~s.ConfigDrive /\ s.MaxCount > 0
    /\ s.Key # <<>> /\ DOMAIN s.Metadata = {} /\ s.SecurityGroups # <<>>

\* the token that stands as the value of the field called name
FieldValue(b, name) == b[FieldAt(b, name) + 2]

\* C4: for a valid request with a non-empty UserData the value of the
\* user_data field is the standard base64 encoding of the UserData bytes.
C4_UserDataBase64 ==
    \A i \in Ran :
        Valid(s) /\ s.UserData # <<>> =>
            /\ Run(i).err = NoError
            /\ HasField(Run(i).b, "user_data")
            /\ FieldValue(Run(i).b, "user_data")
                   = StrLit(StdEncodeToString(s.UserData))

\* C5: with a valid flavor, image and name, MarshalJSON fails with
\* PersonalityTooLarge when the personality has more than 255 bytes,
\* succeeds with a personality field holding exactly the personality bytes
\* when it has 1..255 bytes, and succeeds without a personality field when
\* it is empty.
C5_PersonalityBoundary ==
    \A i \in Ran :
        FlavorOK(s) /\ ImageOK(s) /\ NameOK(s) =>
            /\ Len(s.Personality) > 255 =>
                   Run(i).err = PersonalityTooLarge
            /\ Len(s.Personality) \in 1..255 =>
                   /\ Run(i).err = NoError
                   /\ HasField(Run(i).b, "personality")
                   /\ Run(i).b[FieldAt(Run(i).b, "personality") + 1] = Colon
                   /\ FieldValue(Run(i).b, "personality") = StrLit(s.Personality)
            /\ Len(s.Personality) = 0 =>
                   /\ Run(i).err = NoError
                   /\ ~HasField(Run(i).b, "personality")

\* C5 witness: a call has succeeded on a personality of exactly 255 bytes.
C5_Witness ==
    /\ Len(runs) >= 1
    /\ Len(s.Personality) = 255
    /\ Run(1).err = NoError
    /\ HasField(Run(1).b, "personality")

\* C6 as stated: whenever the image is 0, whatever the flavor, the name and
\* the other fields, MarshalJSON fails with MissingImage and returns no bytes.
C6_MissingImageAlways ==
    \A i \in Ran :
        s.ImageRef = 0 => Run(i).err = MissingImage /\ Run(i).b = <<>>

\* C6 amended: whenever the image is 0, MarshalJSON fails and returns no
\* bytes; the error is MissingImage when the flavor is in 100..105 (whatever
\* the name and the other fields) and InvalidFlavor when it is not.
C6_MissingImageAfterFlavor ==
    \A i \in Ran :
        s.ImageRef = 0 =>
            /\ Run(i).b = <<>>
            /\ Run(i).err = (IF FlavorOK(s) THEN MissingImage ELSE InvalidFlavor)

\* C6 witness: a call on a request with image 0, a valid flavor and an empty
\* name has failed with MissingImage.
C6_Witness ==
    /\ Len(runs) >= 1
    /\ s.ImageRef = 0 /\ FlavorOK(s) /\ ~NameOK(s)
    /\ Run(1).err = MissingImage

\* the array for the groups: one {"name": Name} object per entry, in order,
\* a comma after each but the last, a closing bracket after the last
ExpectedGroups(groups) ==
    [j \in 1..(6 * Len(groups)) |->
        LET n == ((j - 1) \div 6) + 1
            p == (j - 1) % 6
        IN  CASE p = 0 -> LBrace
              [] p = 1 -> Key("name")
              [] p = 2 -> Colon
              [] p = 3 -> StrLit(groups[n].Name)
              [] p = 4 -> RBrace
              [] p = 5 -> IF n = Len(groups) THEN RBracket ELSE Comma]

\* C7: for a valid request with n >= 1 security groups, the security_groups
\* field is the last of the payload and its value is an array of exactly n
\* objects {name: Name}, in the order of the input, one comma between
\* consecutive objects, none after the last, closed once.
C7_SecurityGroupsArray ==
    \A i \in Ran :
        Valid(s) /\ Len(s.SecurityGroups) >= 1 =>
            /\ Run(i).err = NoError
            /\ HasField(Run(i).b, "security_groups")
            /\ SubSeq(Run(i).b, FieldAt(Run(i).b, "security_groups") + 1,
                      Len(Run(i).b))
                 = <<Colon, LBracket>> \o ExpectedGroups(s.SecurityGroups)
                   \o <<RBrace, RBrace>>
            /\ Cardinality({j \in 1..Len(Run(i).b) : Run(i).b[j] = RBracket}) = 1

\* C7 witness: a payload for a request with two or more security groups.
C7_Witness ==
    /\ Len(runs) >= 1 /\ Valid(s)
    /\ Len(s.SecurityGroups) >= 2
    /\ s.SecurityGroups[1] # s.SecurityGroups[2]
    /\ Run(1).err = NoError

\* C8: in CreateServer the transport is never called when MarshalJSON
\* returns an error: the error goes to the caller with a nil response; when
\* the encoding succeeds the transport is called exactly once, with "servers",
\* POST and the encoder's output, before any response is decoded.
C8_TransportAfterEncoding ==
    /\ Len(calls) <= 1
    /\ pc \in {"idle", "marshalled"} => calls = <<>> /\ decodes = 0
    /\ body.err # NoError =>
           /\ calls = <<>> /\ decodes = 0
           /\ pc = "returned"
           /\ ret = [sr |-> "nil", err |-> body.err]
    /\ pc \in {"requested", "returned"} /\ body.err = NoError =>
           /\ Len(calls) = 1
           /\ calls[1].url = "servers" /\ calls[1].method = "POST"
           /\ calls[1].body = body.b
           /\ \E order \in Orders(s.Metadata) :
                  /\ MarshalJSON(s, order).err = NoError
                  /\ MarshalJSON(s, order).b = calls[1].body
    /\ decodes > 0 => Len(calls) = 1
    /\ ~Valid(s) /\ pc # "idle" => pc = "returned" /\ ret.err = FirstViolation(s)

\* C8 witness: CreateServer has returned a validation error to its caller.
C8_Witness ==
    /\ pc = "returned"
    /\ body.err = MissingName
    /\ ret.err = MissingName

(* Metadata entries in a fixed key order *)

RECURSIVE LexLess(_, _)
\* byte strings in lexicographic order
LexLess(x, y) ==
    IF y = <<>> THEN FALSE
    ELSE IF x = <<>> THEN TRUE
    ELSE IF x[1] # y[1] THEN x[1] < y[1]
    ELSE LexLess(Tail(x), Tail(y))

\* the position after the metadata key where the metadata object ends: its
\* first closing brace, or the end of the payload when there is none
MetadataEnd(b, m) ==
    LET closing == {j \in (m + 1)..Len(b) : b[j] = RBrace}
    IN  IF closing = {} THEN Len(b) + 1
        ELSE CHOOSE j \in closing : \A k \in closing : j <= k

RECURSIVE SplitAtCommas(_, _)
\* the pieces of toks between its commas; cur is the piece being read
SplitAtCommas(toks, cur) ==
    IF toks = <<>> THEN <<cur>>
    ELSE IF toks[1] = Comma THEN <<cur>> \o SplitAtCommas(Tail(toks), <<>>)
    ELSE SplitAtCommas(Tail(toks), Append(cur, toks[1]))

\* the key bytes an entry starts with
EntryKey(entry) == IF entry = <<>> THEN <<>> ELSE entry[1].v

RECURSIVE SortEntries(_)
\* the entries in the order of their keys
SortEntries(entries) ==
    IF entries = <<>> THEN <<>>
    ELSE LET least == CHOOSE i \in DOMAIN entries :
                          \A j \in DOMAIN entries :
                              ~LexLess(EntryKey(entries[j]), EntryKey(entries[i]))
             rest == [j \in 1..(Len(entries) - 1) |->
                         IF j < least THEN entries[j] ELSE entries[j + 1]]
         IN  <<entries[least]>> \o SortEntries(rest)

RECURSIVE JoinWithCommas(_)
JoinWithCommas(entries) ==
    IF entries = <<>> THEN <<>>
    ELSE IF Len(entries) = 1 THEN entries[1]
    ELSE entries[1] \o <<Comma>> \o JoinWithCommas(Tail(entries))

\* the payload with the entries of its metadata object put in key order
Normalized(b) ==
    IF ~HasField(b, "metadata") THEN b
    ELSE LET m == FieldAt(b, "metadata")
             e == MetadataEnd(b, m)
             inner == SubSeq(b, m + 3, e - 1)
         IN  SubSeq(b, 1, m + 2)
             \o JoinWithCommas(SortEntries(SplitAtCommas(inner, <<>>)))
             \o SubSeq(b, e, Len(b))

\* C9: two calls of MarshalJSON on the same request return the same error,
\* and payloads that are equal once the metadata entries are put in key
\* order; with at most one metadata entry the payloads are identical.
C9_Deterministic ==
    \A i, j \in Ran :
        i < j =>
            /\ Run(i).err = Run(j).err
            /\ Normalized(Run(i).b) = Normalized(Run(j).b)
            /\ Cardinality(DOMAIN s.Metadata) <= 1 => Run(i).b = Run(j).b

\* C9 witness: two successful calls on one request whose payloads differ
\* in the order of the metadata entries.
C9_Witness ==
    /\ Len(runs) = 2
    /\ Run(1).err = NoError /\ Run(2).err = NoError
    /\ Run(1).b # Run(2).b
    /\ s.SecurityGroups # <<>> /\ s.UserData # <<>>

\* the tokens of the metadata field after its key, up to the comma of the
\* security_groups field or the two closing braces of the payload
MetadataValue(b) ==
    LET m == FieldAt(b, "metadata")
        last == IF HasField(b, "security_groups")
                THEN FieldAt(b, "security_groups") - 2
                ELSE Len(b) - 2
    IN  SubSeq(b, m + 1, last)

Count(toks, t) == Cardinality({j \in 1..Len(toks) : toks[j].t = t})

\* C10: for a valid request with n >= 1 metadata entries, whatever the order
\* of the iteration, the metadata object has one entry per key with that
\* key's value, n - 1 commas, each between two entries, and one closing
\* brace, after the last entry.
C10_MetadataObject ==
    \A i \in Ran :
        LET n == Cardinality(DOMAIN s.Metadata)
        IN  Valid(s) /\ n >= 1 =>
              /\ Run(i).err = NoError
              /\ HasField(Run(i).b, "metadata")
              /\ LET v == MetadataValue(Run(i).b)
                     keys == {j \in 1..Len(v) : v[j].t = "key"}
                 IN  /\ Len(v) = 2 + 4 * n
                     /\ v[1] = Colon /\ v[2] = LBrace
                     /\ Cardinality(keys) = n
                     /\ {v[j].v : j \in keys} = DOMAIN s.Metadata
                     /\ \A j \in keys :
                            /\ v[j + 1] = Colon
                            /\ v[j + 2] = StrLit(s.Metadata[v[j].v])
                     /\ Count(v, ",") = n - 1
                     /\ \A j \in 1..Len(v) :
                            v[j] = Comma =>
                                v[j - 1].t = "str" /\ v[j + 1].t = "key"
                     /\ Count(v, "}") = 1
                     /\ v[Len(v)] = RBrace
                     /\ v[Len(v) - 1].t = "str"

\* C10 witness: a payload for a request with a single metadata entry,
\* followed by security groups.
C10_Witness ==
    /\ Len(runs) >= 1 /\ Valid(s)
    /\ Cardinality(DOMAIN s.Metadata) = 1
    /\ s.SecurityGroups # <<>>
    /\ Run(1).err = NoError

====
